---- MODULE Spec2Model ----
(***************************************************************************)
(* State-machine model of src/tui_base.py: the Textual application         *)
(* TextualApp, its modal QuitScreen and the self-removing Notification     *)
(* widget.  Strings are sequences of tokens: a literal piece of an          *)
(* f-string is one token, and so is every character that isoformat()       *)
(* produces.  The framework is modelled where the handlers call into it:   *)
(* the screen stack, the bindings of a modal screen, the timers of a       *)
(* widget and the life of an exclusive worker.                             *)
(***************************************************************************)
EXTENDS Integers, Sequences, FiniteSets

VARIABLES status, dark, screen_stack, text_log, notifications, timers,
          workers, messages, shot, files, last

vars == <<status, dark, screen_stack, text_log, notifications, timers,
          workers, messages, shot, files, last>>

(* ---------------------------- bounds ----------------------------------- *)

\* number of 'c' and 's' keypresses a behaviour may contain
MaxKeys == 2

(* ------------------------- program constants --------------------------- *)

\* Notification.on_mount: self.set_timer(3, self.remove)
TIMER_SECONDS == 3

WorkerStates == {"PENDING", "RUNNING", "CANCELLED", "ERROR", "SUCCESS"}

\* the login os.getlogin() returns
Logins == {"josh"}

(* ------------------------- strings and dates --------------------------- *)

Digits == <<"0", "1", "2", "3", "4", "5", "6", "7", "8", "9">>

Digit(d) == Digits[d + 1]

Pad2(n) == <<Digit((n \div 10) % 10), Digit(n % 10)>>

Pad4(n) == Pad2(n \div 100) \o Pad2(n % 100)

Pad6(n) == Pad2(n \div 10000) \o Pad4(n % 10000)

\* datetime.isoformat() of a naive datetime: the microseconds are printed
\* only when they are not zero
isoformat(dt) ==
    Pad4(dt.year) \o <<"-">> \o Pad2(dt.month) \o <<"-">> \o Pad2(dt.day)
    \o <<"T">> \o Pad2(dt.hour) \o <<":">> \o Pad2(dt.minute)
    \o <<":">> \o Pad2(dt.second)
    \o (IF dt.microsecond = 0 THEN <<>> ELSE <<".">> \o Pad6(dt.microsecond))

\* str.replace(old, new) for one-character old and new: a left-to-right scan
RECURSIVE replace(_, _, _)
replace(s, old, new) ==
    IF s = <<>> THEN <<>>
    ELSE <<IF Head(s) = old THEN new ELSE Head(s)>> \o replace(Tail(s), old, new)

\* str.replace(old, new, 1): only the first occurrence is replaced
RECURSIVE replace_first(_, _, _)
replace_first(s, old, new) ==
    IF s = <<>> THEN <<>>
    ELSE IF Head(s) = old THEN <<new>> \o Tail(s)
         ELSE <<Head(s)>> \o replace_first(Tail(s), old, new)

\* a name in which only the first ':' is replaced
get_screenshot_name_first(now) ==
    <<"screenshot_">> \o replace_first(isoformat(now), ":", "_") \o <<".svg">>

get_screenshot_name(now) ==
    <<"screenshot_">> \o replace(isoformat(now), ":", "_") \o <<".svg">>

\* datetime.now().strftime("%b %d %H:%M:%S"): no handler reads a log line
\* back, so the rendered time is kept as one token
Timestamp == <<"%b %d %H:%M:%S">>

\* str(bool)
PyBool(b) == IF b THEN "True" ELSE "False"

\* os.path.join(path, filename) for a path without a trailing separator
path_join(dir, filename) == <<dir, "/">> \o filename

DateTime(y, mo, d, h, mi, s, us) ==
    [year |-> y, month |-> mo, day |-> d, hour |-> h, minute |-> mi,
     second |-> s, microsecond |-> us]

\* the value datetime.now() returns while the application runs; the names of
\* other times are checked under NameSpec
Times == {DateTime(2023, 6, 29, 9, 5, 7, 120000)}

\* the values datetime.now() is drawn from when get_screenshot_name is
\* checked on its own
DateTimes ==
    {DateTime(y, mo, d, h, mi, s, us) :
        y \in {2023, 9999}, mo \in {1, 12}, d \in {1, 31}, h \in {0, 23},
        mi \in {0, 59}, s \in {0, 7}, us \in {0, 5, 120000, 999999}}

(* ------------------------------ screens -------------------------------- *)

\* QuitScreen derives from ModalScreen; the default screen is no modal
is_modal(screen) == screen = "quit_screen"

Top(stack) == stack[Len(stack)]

\* bindings looked up whatever screen is on top, as under a plain Screen
BindingAlways == TRUE

\* the bindings of the App are looked up only when no modal screen is on top
BindingActive == ~is_modal(Top(screen_stack))

push_screen(stack, screen) == Append(stack, screen)

\* a pop_screen that leaves the dialog on the stack
pop_screen_none(stack) == stack

pop_screen(stack) == SubSeq(stack, 1, Len(stack) - 1)

(* --------------------------- notifications ----------------------------- *)

\* a Notification widget with its text, mounted on a screen
Notification(message, screen) ==
    [message |-> message, screen |-> screen, state |-> "mounted"]

\* Screen.mount(widget)
mount(nts, widget) == Append(nts, widget)

\* Notification.on_mount of the widget mounted last: self.set_timer(3, ...)
\* starts a timer, kept as the seconds it has run
set_timer(tms, nts) == [i \in DOMAIN tms \cup {Len(nts)} |->
                          IF i \in DOMAIN tms THEN tms[i] ELSE 0]

\* a remove that leaves the widget on the screen
remove_nothing(n) == n

\* Widget.remove(): removing a removed widget changes nothing
remove(n) == [n EXCEPT !.state = "removed"]

\* the timers of a removed widget are stopped
stop_timers(tms, i) == [j \in DOMAIN tms \ {i} |-> tms[j]]

\* a greeting that leaves the login out
GreetingNoLogin(login) == <<"Hello, ", " :)">>

GreetingMessage(login) == <<"Hello, ", login, " :)">>

DarkMessage(value) == <<"[bold]Dark mode: ", PyBool(value)>>

ScreenshotMessage(outpath) ==
    <<"[bold]Screenshot saved to [green]'">> \o outpath \o <<"'">>

\* an update_log that writes the log only when it mounts no widget
update_log_unlogged(lg, nts, screen, message, timestamp, notify) ==
    [log |-> IF notify THEN lg ELSE Append(lg, message),
     notes |-> IF notify THEN Append(nts, [message |-> message, screen |-> screen,
                                           state |-> "mounted"])
               ELSE nts,
     mounted |-> notify]

\* TextualApp.update_log: the new log and the new widgets
update_log(lg, nts, screen, message, timestamp, notify) ==
    [log |-> Append(lg, IF timestamp THEN Timestamp \o <<": ">> \o message
                        ELSE message),
     notes |-> IF notify THEN mount(nts, Notification(message, screen))
               ELSE nts,
     mounted |-> notify]

(* ------------------------------ workers -------------------------------- *)

\* a worker: result is the flag as its toggle left it, reports the number of
\* reports made for it and said the flag the last of them showed
Worker(name) ==
    [name |-> name, state |-> "PENDING", result |-> FALSE, reports |-> 0,
     said |-> FALSE]

StateChanged(w, name, state) == [worker |-> w, name |-> name, state |-> state]

Active(w) == w.state \in {"PENDING", "RUNNING"}

\* @work(exclusive=True): the workers of the group are cancelled first
cancel_group(ws) ==
    [i \in DOMAIN ws |->
        IF Active(ws[i]) THEN [ws[i] EXCEPT !.state = "CANCELLED"] ELSE ws[i]]

\* the events a cancellation may post: a task cancelled before its first
\* step never runs its coroutine, a task cancelled later reports CANCELLED
RECURSIVE CancelEvents(_, _)
CancelEvents(ws, i) ==
    IF i > Len(ws) THEN <<>>
    ELSE (IF Active(ws[i])
          THEN <<StateChanged(i, ws[i].name, "CANCELLED")>> ELSE <<>>)
         \o CancelEvents(ws, i + 1)

(* ------------------------------- state --------------------------------- *)

Idle == status = "running" /\ shot.pc = "idle"

\* the 's' keypresses handled so far: one report each, or a pending report
ShotsTaken ==
    Cardinality({i \in DOMAIN text_log :
                    text_log[i][Len(Timestamp) + 2] = ScreenshotMessage(<<>>)[1]})
    + (IF shot.pc = "saved" THEN 1 ELSE 0)

\* the 'c' and 's' keypresses handled so far
KeysUsed == Len(workers) + ShotsTaken

\* no screenshot in progress: the locals of action_custom_screenshot are unset
NoShot == [pc |-> "idle", now |-> CHOOSE t \in Times : TRUE,
           name |-> <<>>, outpath |-> <<>>]

\* App.dark before the first toggle
InitialDark == TRUE

Init ==
    /\ status = "constructed"
    /\ dark = InitialDark
    /\ screen_stack = <<"_default">>
    /\ text_log = <<>>
    /\ notifications = <<>>
    /\ timers = <<>>
    /\ workers = <<>>
    /\ messages = <<>>
    /\ shot = NoShot
    /\ files = {}
    /\ last = "other"

\* TextualApp.on_mount
on_mount ==
    /\ status = "constructed"
    /\ \E login \in Logins :
          notifications' =
              mount(notifications,
                    Notification(GreetingMessage(login), Top(screen_stack)))
    /\ timers' = set_timer(timers, notifications')
    /\ status' = "running"
    /\ last' = "other"
    /\ UNCHANGED <<dark, screen_stack, text_log, workers, messages, shot, files>>

\* the field last holds the id of the button whose press was the last step,
\* "other" after every other step

\* Binding("c", "custom_dark"): TextualApp.action_custom_dark under
\* @work(exclusive=True) cancels the group and starts a new worker
action_custom_dark ==
    /\ Idle
    /\ BindingActive
    /\ KeysUsed < MaxKeys
    /\ workers' = Append(cancel_group(workers), Worker("action_custom_dark"))
    /\ \E quiet \in BOOLEAN :
          messages' = messages \o (IF quiet THEN <<>> ELSE CancelEvents(workers, 1))
    /\ last' = "other"
    /\ UNCHANGED <<status, dark, screen_stack, text_log, notifications, timers, shot, files>>

\* the body of action_custom_dark run by the worker's task: it has no await,
\* so RUNNING, the toggle and SUCCESS happen in one step of the event loop
worker_run(w) ==
    /\ Idle
    /\ w \in DOMAIN workers
    /\ workers[w].state = "PENDING"
    /\ dark' = ~dark
    /\ workers' = [workers EXCEPT ![w].state = "SUCCESS", ![w].result = ~dark]
    /\ messages' = messages \o <<StateChanged(w, workers[w].name, "RUNNING"),
                                 StateChanged(w, workers[w].name, "SUCCESS")>>
    /\ last' = "other"
    /\ UNCHANGED <<status, screen_stack, text_log, notifications, timers, shot, files>>

\* a handler that forgets to test the state of the worker
ReportsAnyState(event) == event.name = "action_custom_dark"

\* the condition of TextualApp.on_worker_state_changed
Reports(event) == event.name = "action_custom_dark" /\ event.state = "SUCCESS"

\* the body of TextualApp.on_worker_state_changed
HandleStateChanged(event) ==
    /\ IF Reports(event)
       THEN /\ LET r == update_log(text_log, notifications, Top(screen_stack),
                                   DarkMessage(dark), TRUE, TRUE)
               IN  /\ text_log' = r.log
                   /\ notifications' = r.notes
                   /\ timers' = IF r.mounted THEN set_timer(timers, r.notes)
                                ELSE timers
            /\ workers' = IF event.worker \in DOMAIN workers
                          THEN [workers EXCEPT ![event.worker].reports = @ + 1,
                                               ![event.worker].said = dark]
                          ELSE workers
       ELSE UNCHANGED <<text_log, notifications, timers, workers>>
    /\ last' = "other"
    /\ UNCHANGED <<status, dark, screen_stack, shot, files>>

\* TextualApp.on_worker_state_changed for the event at the head of the queue
on_worker_state_changed ==
    /\ Idle
    /\ messages # <<>>
    /\ messages' = Tail(messages)
    /\ HandleStateChanged(Head(messages))

\* TextualApp.on_worker_state_changed for a state change of a worker that is
\* not action_custom_dark (the class is the foundation of other applications,
\* whose workers are reported to the same handler)
on_other_worker_state_changed ==
    /\ Idle
    /\ \E st \in WorkerStates :
          HandleStateChanged(StateChanged(0, "other_worker", st))
    /\ UNCHANGED messages

\* Binding("q", "request_quit"): TextualApp.action_request_quit
action_request_quit ==
    /\ Idle
    /\ BindingActive
    /\ screen_stack' = push_screen(screen_stack, "quit_screen")
    /\ last' = "other"
    /\ UNCHANGED <<status, dark, text_log, notifications, timers, workers, messages,
                   shot, files>>

\* the branches of on_button_pressed taken the wrong way round
ButtonExitsSwapped(id) == id # "quit"

\* the test of QuitScreen.on_button_pressed
ButtonExits(id) == id = "quit"

\* QuitScreen.on_button_pressed for the buttons of the dialog
on_button_pressed(id) ==
    /\ Idle
    /\ Top(screen_stack) = "quit_screen"
    /\ IF ButtonExits(id)
       THEN status' = "exited" /\ UNCHANGED screen_stack
       ELSE IF Len(screen_stack) > 1
            THEN screen_stack' = pop_screen(screen_stack) /\ UNCHANGED status
            ELSE status' = "crashed" /\ UNCHANGED screen_stack
    /\ last' = id
    /\ UNCHANGED <<dark, text_log, notifications, timers, workers, messages, shot, files>>

\* App.save_screenshot: the file is written and its path returned, or the
\* write raises
save_screenshot(path, filename) == path_join(path, filename)

\* the directory save_screenshot writes to when no path is passed
screen_dir_unset == "./"

\* the default of the parameter screen_dir
screen_dir == "/tmp"

\* Binding("s", "custom_screenshot"): TextualApp.action_custom_screenshot up to
\* the return of save_screenshot; an exception ends the handler and the app
action_custom_screenshot ==
    /\ Idle
    /\ BindingActive
    /\ KeysUsed < MaxKeys
    /\ \E now \in Times, saved \in BOOLEAN :
          LET screen_name == get_screenshot_name(now)
              outpath == save_screenshot(screen_dir, screen_name)
          IN  IF saved
              THEN /\ files' = files \cup {outpath}
                   /\ shot' = [pc |-> "saved", now |-> now, name |-> screen_name,
                               outpath |-> outpath]
                   /\ status' = status
              ELSE /\ status' = "crashed"
                   /\ shot' = [shot EXCEPT !.now = now, !.name = screen_name]
                   /\ files' = files
    /\ last' = "other"
    /\ UNCHANGED <<dark, screen_stack, text_log, notifications, timers, workers, messages>>

\* the last statement of action_custom_screenshot
screenshot_report ==
    /\ status = "running"
    /\ shot.pc = "saved"
    /\ LET r == update_log(text_log, notifications, Top(screen_stack),
                            ScreenshotMessage(shot.outpath), TRUE, TRUE)
       IN  /\ text_log' = r.log
           /\ notifications' = r.notes
           /\ timers' = IF r.mounted THEN set_timer(timers, r.notes) ELSE timers
    /\ shot' = NoShot
    /\ last' = "other"
    /\ UNCHANGED <<status, dark, screen_stack, workers, messages, files>>

\* one second passes: every timer that has not run out advances
Tick ==
    /\ status = "running"
    /\ \E i \in DOMAIN timers : timers[i] < TIMER_SECONDS
    /\ timers' = [i \in DOMAIN timers |->
                    IF timers[i] < TIMER_SECONDS THEN timers[i] + 1 ELSE timers[i]]
    /\ last' = "other"
    /\ UNCHANGED <<status, dark, screen_stack, text_log, notifications, workers,
                   messages, shot, files>>

\* the timer set by Notification.on_mount runs out and calls self.remove
timer_fires(i) ==
    /\ Idle
    /\ i \in DOMAIN timers
    /\ timers[i] >= TIMER_SECONDS
    /\ notifications' = [notifications EXCEPT ![i] = remove(@)]
    /\ timers' = stop_timers(timers, i)
    /\ last' = "other"
    /\ UNCHANGED <<status, dark, screen_stack, text_log, workers, messages,
                   shot, files>>

\* Notification.on_click on a widget of the active screen
on_click(i) ==
    /\ Idle
    /\ i \in DOMAIN notifications
    /\ notifications[i].state = "mounted"
    /\ notifications[i].screen = Top(screen_stack)
    /\ notifications' = [notifications EXCEPT ![i] = remove(@)]
    /\ timers' = stop_timers(timers, i)
    /\ last' = "other"
    /\ UNCHANGED <<status, dark, screen_stack, text_log, workers, messages,
                   shot, files>>

\* every keypress mounts at most one widget, on_mount mounts one
MaxNotes == 1 + MaxKeys

Next ==
    \/ on_mount
    \/ action_custom_dark
    \/ \E w \in 1..MaxKeys : worker_run(w)
    \/ on_worker_state_changed
    \/ on_other_worker_state_changed
    \/ action_request_quit
    \/ \E id \in {"quit", "cancel"} : on_button_pressed(id)
    \/ action_custom_screenshot
    \/ screenshot_report
    \/ Tick
    \/ \E i \in 1..MaxNotes : timer_fires(i)
    \/ \E i \in 1..MaxNotes : on_click(i)

Spec == Init /\ [][Next]_vars

\* The event loop runs a handler to its end, the clock advances while the
\* application runs and a timer that has run out calls its callback.
FairSpec ==
    /\ Spec
    /\ WF_vars(Tick)
    /\ WF_vars(screenshot_report)
    /\ \A i \in 1..MaxNotes : WF_vars(timer_fires(i))

(* ------------- get_screenshot_name checked on its own ------------------ *)

NameInit ==
    /\ status = "running"
    /\ dark = InitialDark
    /\ screen_stack = <<"_default">>
    /\ text_log = <<>>
    /\ notifications = <<>>
    /\ timers = <<>>
    /\ workers = <<>>
    /\ messages = <<>>
    /\ \E now \in DateTimes :
          shot = [pc |-> "idle", now |-> now, name |-> <<>>, outpath |-> <<>>]
    /\ files = {}
    /\ last = "other"

\* screen_name = self.get_screenshot_name() at the time shot.now
name_screenshot ==
    /\ shot.name = <<>>
    /\ shot' = [shot EXCEPT !.name = get_screenshot_name(shot.now)]
    /\ UNCHANGED <<status, dark, screen_stack, text_log, notifications, timers,
                   workers, messages, files, last>>

NameNext == name_screenshot

NameSpec == NameInit /\ [][NameNext]_vars


(* ------------------------------ claims --------------------------------- *)

QuitCount(stack) == Cardinality({i \in DOMAIN stack : stack[i] = "quit_screen"})

\* C1: a press of the Quit button of the open dialog exits the application,
\* the application exits only by such a press, and neither the 'q' keypress
\* nor a press of Cancel exits.
C1_QuitButtonExits ==
    [][/\ last' = "quit" =>
            Top(screen_stack) = "quit_screen" /\ status' = "exited"
       /\ (status' = "exited" /\ status # "exited") =>
            last' = "quit" /\ Top(screen_stack) = "quit_screen"
       /\ (action_request_quit \/ last' = "cancel") => status' = "running"]_vars

C1_Witness == status = "exited" /\ last = "quit"

\* C2: a press of Cancel pops exactly the quit dialog and leaves the stack as
\* it was before the 'q' keypress (the keypress appended the dialog, nothing
\* but a button changes the stack under the dialog); the dark flag, the log
\* and the running state are unchanged.
C2_CancelFrame ==
    [][/\ last' = "cancel" =>
            /\ Len(screen_stack') = Len(screen_stack) - 1
            /\ screen_stack = Append(screen_stack', "quit_screen")
            /\ dark' = dark
            /\ text_log' = text_log
            /\ status = "running" /\ status' = "running"
       /\ Len(screen_stack') > Len(screen_stack) =>
            screen_stack' = Append(screen_stack, "quit_screen")
       /\ (Top(screen_stack) = "quit_screen" /\ last' \notin {"quit", "cancel"}) =>
            screen_stack' = screen_stack]_vars

C2_Witness ==
    last = "cancel" /\ screen_stack = <<"_default">> /\ text_log # <<>>

\* C9: the registered quit screen is on the stack at most once, above the
\* main screen, so that one pop returns to the main screen.
C9_QuitScreenOnce ==
    /\ QuitCount(screen_stack) <= 1
    /\ screen_stack[1] = "_default"
    /\ Top(screen_stack) = "quit_screen" =>
          SubSeq(screen_stack, 1, Len(screen_stack) - 1) = <<"_default">>

C9_Witness ==
    /\ Top(screen_stack) = "quit_screen"
    /\ last = "other"
    /\ \E i \in DOMAIN notifications : notifications[i].screen = "quit_screen"


\* the text of a log line after its timestamp
LogText(line) == SubSeq(line, Len(Timestamp) + 2, Len(line))

IsGreeting(message) == message[1] = "Hello, "

IsDarkReport(message) == message[1] = "[bold]Dark mode: "

IsShotReport(message) == message[1] = "[bold]Screenshot saved to [green]'"

Greetings ==
    {i \in DOMAIN notifications : IsGreeting(notifications[i].message)}

C10_LogBeforeNotify ==
    /\ Len(text_log) + 1 >= Len(notifications)
    /\ \A i \in DOMAIN notifications :
          ~IsGreeting(notifications[i].message) =>
              \E j \in DOMAIN text_log :
                  LogText(text_log[j]) = notifications[i].message
    /\ \A timestamp \in BOOLEAN, notify \in BOOLEAN :
          Len(update_log(text_log, notifications, Top(screen_stack),
                         DarkMessage(dark), timestamp, notify).log)
            = Len(text_log) + 1

C10_Witness ==
    /\ Len(text_log) >= 2
    /\ Len(notifications) = Len(text_log) + 1
    /\ \E i \in DOMAIN notifications : IsShotReport(notifications[i].message)

DarkLines == {i \in DOMAIN text_log : IsDarkReport(LogText(text_log[i]))}

PendingSuccess(w) ==
    Cardinality({i \in DOMAIN messages :
                    messages[i].worker = w /\ messages[i].state = "SUCCESS"})

\* C8: a worker is reported once and only for its SUCCESS event: its reports
\* and its SUCCESS events still queued add up to one when it has succeeded
\* and to none otherwise, the log holds no other dark-mode line, a cancelled
\* worker is never reported, and at most one worker is active.
C8_ReportOnSuccessOnly ==
    /\ \A w \in DOMAIN workers :
          /\ workers[w].name = "action_custom_dark"
          /\ workers[w].reports + PendingSuccess(w)
                = (IF workers[w].state = "SUCCESS" THEN 1 ELSE 0)
          /\ workers[w].state = "CANCELLED" => workers[w].reports = 0
    /\ Cardinality(DarkLines)
          = Cardinality({w \in DOMAIN workers : workers[w].reports = 1})
    /\ Cardinality({w \in DOMAIN workers : Active(workers[w])}) <= 1

C8_Witness ==
    /\ messages = <<>>
    /\ \E w, v \in DOMAIN workers :
          workers[w].state = "CANCELLED" /\ workers[v].reports = 1


\* C6: the name is 'screenshot_', the ISO rendering of the time with each ':'
\* turned into '_' and every other character kept, and '.svg'; it holds no ':'.
C6_NameFormat ==
    shot.name # <<>> =>
        LET name == shot.name
            iso == isoformat(shot.now)
            middle == SubSeq(name, 2, Len(name) - 1)
        IN  /\ name[1] = "screenshot_"
            /\ name[Len(name)] = ".svg"
            /\ \A i \in DOMAIN name : name[i] # ":"
            /\ Len(middle) = Len(iso)
            /\ Len(iso) = (IF shot.now.microsecond = 0 THEN 19 ELSE 26)
            /\ {i \in DOMAIN iso : iso[i] = ":"} = {14, 17}
            /\ \A i \in DOMAIN iso :
                  middle[i] = (IF iso[i] = ":" THEN "_" ELSE iso[i])

C6_Witness ==
    /\ shot.name # <<>>
    /\ shot.now.microsecond # 0
    /\ shot.name[15] = "_" /\ shot.name[18] = "_"

ShotLines(lg) == {i \in DOMAIN lg : IsShotReport(LogText(lg[i]))}

ShotNotes(nts) == {i \in DOMAIN nts : IsShotReport(nts[i].message)}

\* C5: a screenshot report (log line and widget) is emitted only by a step
\* taken after save_screenshot has returned, it carries the path returned for
\* /tmp and the generated name, whose file is written; the step that saves
\* emits nothing, and a failed save emits nothing.
C5_ReportAfterSave ==
    /\ [](\A i \in ShotLines(text_log) :
            \E p \in files : LogText(text_log[i]) = ScreenshotMessage(p))
    /\ [][/\ (\/ ShotLines(text_log') # ShotLines(text_log)
               \/ ShotNotes(notifications') # ShotNotes(notifications)) =>
                /\ shot.pc = "saved"
                /\ shot.outpath \in files
                /\ shot.name = get_screenshot_name(shot.now)
                /\ shot.outpath = <<"/tmp", "/">> \o shot.name
                /\ text_log' =
                      Append(text_log,
                             Timestamp \o <<": ", "[bold]Screenshot saved to [green]'">>
                             \o shot.outpath \o <<"'">>)
                /\ Len(notifications') = Len(notifications) + 1
                /\ notifications'[Len(notifications')].message =
                      <<"[bold]Screenshot saved to [green]'">> \o shot.outpath
                      \o <<"'">>
          /\ (shot.pc = "idle" /\ shot'.pc = "saved") =>
                /\ text_log' = text_log /\ notifications' = notifications
                /\ shot'.outpath \in files'
          /\ status' = "crashed" =>
                /\ text_log' = text_log /\ notifications' = notifications
                /\ files' = files]_vars

C5_Witness ==
    /\ shot.pc = "idle"
    /\ \E i \in ShotLines(text_log), p \in files :
          /\ LogText(text_log[i]) = ScreenshotMessage(p)
          /\ \E j \in ShotNotes(notifications) :
                notifications[j].message = ScreenshotMessage(p)

Mounted(i) == i \in DOMAIN notifications /\ notifications[i].state = "mounted"

Removed(i) == i \in DOMAIN notifications /\ notifications[i].state = "removed"

\* a widget is removed only by its timer after 3 seconds or by a click, and
\* a removed widget stays removed, without a timer
RemovalSteps ==
    [][\A i \in 1..MaxNotes :
          /\ (Mounted(i) /\ Removed(i)') =>
                \/ timer_fires(i) /\ timers[i] >= 3
                \/ on_click(i) /\ notifications[i].screen = Top(screen_stack)
          /\ (Mounted(i) /\ Removed(i)') => status' = "running"
          /\ Removed(i) => (Removed(i)' /\ i \notin DOMAIN timers')]_vars

C4_ToggleOncePerKeypress ==
    /\ (\A w \in DOMAIN workers : ~Active(workers[w])) =>
          dark = (InitialDark # (Len(workers) % 2 = 1))
    /\ \A w \in DOMAIN workers :
          workers[w].reports > 0 => workers[w].said = workers[w].result

\* the report alone: it carries the flag as the reported worker's toggle left it
C4_ReportCarriesToggle ==
    \A w \in DOMAIN workers :
        workers[w].reports > 0 => workers[w].said = workers[w].result

====
